---------------------------- MODULE Spec2Model ----------------------------
(***************************************************************************)
(* Model of the ssh-log break-in detector (src/unnamed/part_000): the URL  *)
(* is broken down, a TCP stream is set up, the HTTP headers are skipped,   *)
(* the two lookup files are loaded and the log lines are processed one at  *)
(* a time.  A std::string is a sequence of one-character strings.          *)
(***************************************************************************)
EXTENDS Integers, Sequences, FiniteSets, TLC

(***************************************************************************)
(* Bounds of the model.                                                    *)
(***************************************************************************)
\* most body lines read by processLogs in one run
MaxLines == 5

\* most lines of a response whose lines are recorded (SpecFetch)
MaxRecv == 4

(***************************************************************************)
(* std::string helpers, with the 0-based positions of the C++ code.        *)
(***************************************************************************)
\* std::string::npos is size_t(-1) = 2^64 - 1; it is written -1 here, which
\* is the same number modulo 2^64, the width of size_t.
npos == -1

\* size_t addition modulo 2^64 (npos + 2 wraps around to 1)
SizeAdd(a, b) == IF a = npos THEN b - 1 ELSE a + b

RECURSIVE FindFrom(_, _, _)
\* s.find(c, from) for a single character c
FindFrom(s, c, from) ==
    IF from >= Len(s) THEN npos
    ELSE IF s[from + 1] = c THEN from
    ELSE FindFrom(s, c, from + 1)

find(s, c) == FindFrom(s, c, 0)

RECURSIVE FindStrFrom(_, _, _)
\* s.find(pat, from) for a string pat
FindStrFrom(s, pat, from) ==
    IF from + Len(pat) > Len(s) THEN npos
    ELSE IF SubSeq(s, from + 1, from + Len(pat)) = pat THEN from
    ELSE FindStrFrom(s, pat, from + 1)

findStr(s, pat) == FindStrFrom(s, pat, 0)

\* s.substr(pos, count) throws std::out_of_range when pos > s.size()
substrThrows(s, pos) == pos = npos \/ pos > Len(s)

\* s.substr(pos, count) when it does not throw; count = npos means "to the end"
substr(s, pos, count) ==
    IF count = npos \/ pos + count > Len(s)
    THEN SubSeq(s, pos + 1, Len(s))
    ELSE SubSeq(s, pos + 1, pos + count)

(***************************************************************************)
(* breakDownURL: the url split into hostname, port and path.  The result   *)
(* is a record; threw is TRUE when a substr call throws out_of_range, and  *)
(* the three strings then hold the values assigned before the throw.       *)
(***************************************************************************)
breakDownURL(u) ==
    LET start == SizeAdd(findStr(u, <<"/", "/">>), 2)
    IN  IF substrThrows(u, start)
        THEN [threw |-> TRUE, hostName |-> <<>>, port |-> <<"8", "0">>,
              path |-> <<"/">>]
        ELSE
        LET rest     == substr(u, start, npos)
            hasColon == find(rest, ":") # npos
            end      == IF hasColon THEN find(rest, ":") ELSE find(rest, "/")
            port1    == substr(rest, end + 1, npos)
            port     == IF hasColon THEN substr(port1, 0, find(port1, "/"))
                        ELSE <<"8", "0">>
            slash    == find(rest, "/")
        IN  IF substrThrows(rest, slash)
            THEN [threw |-> TRUE, hostName |-> rest, port |-> port,
                  path |-> <<"/">>]
            ELSE [threw |-> FALSE, hostName |-> substr(rest, 0, end),
                  port |-> port, path |-> substr(rest, slash, npos)]

(***************************************************************************)
(* operator>> on an istringstream: whitespace-delimited extraction.        *)
(***************************************************************************)
\* the characters std::isspace accepts in the "C" locale
WhiteSpace == {" ", "\t", "\n", "\r", "\f"}

RECURSIVE Tokens(_)
\* the tokens of s, in order: leading whitespace is skipped, then the
\* characters up to the next whitespace (or the end of s) form a token
Tokens(s) ==
    IF s = <<>> THEN <<>>
    ELSE IF s[1] \in WhiteSpace THEN Tokens(Tail(s))
    ELSE LET n == CHOOSE k \in 1..Len(s) :
                     /\ (k = Len(s) \/ s[k + 1] \in WhiteSpace)
                     /\ \A j \in 1..k : s[j] \notin WhiteSpace
         IN  <<SubSeq(s, 1, n)>> \o Tokens(SubSeq(s, n + 1, Len(s)))

\* the k-th extraction of a chain "stream >> a >> b >> ...": when the stream
\* has run out, the sentry fails before the target is erased, so the target
\* keeps the value it had
Extract(old, toks, k) == IF k <= Len(toks) THEN toks[k] ELSE old

(***************************************************************************)
(* toSeconds: strptime(timestamp, "%B %d %H:%M:%S") into a struct tm that  *)
(* starts as {.tm_year = year - 1900} and zero elsewhere, then mktime.     *)
(* strptime is the glibc one in the "C" locale; mktime is taken in a time  *)
(* zone with no offset, the struct having tm_isdst = 0.                    *)
(***************************************************************************)
UpperCase == <<"A", "B", "C", "D", "E", "F", "G", "H", "I", "J", "K", "L", "M", "N", "O", "P", "Q", "R", "S", "T", "U", "V", "W", "X", "Y", "Z">>
LowerCase == <<"a", "b", "c", "d", "e", "f", "g", "h", "i", "j", "k", "l", "m", "n", "o", "p", "q", "r", "s", "t", "u", "v", "w", "x", "y", "z">>

\* tolower, as a table over the upper-case letters
LowerOf ==
    [c \in {UpperCase[i] : i \in 1..26} |->
        LowerCase[CHOOSE i \in 1..26 : UpperCase[i] = c]]

\* tolower of one character
ToLower(c) == IF c \in DOMAIN LowerOf THEN LowerOf[c] ELSE c

\* the full month names; the abbreviated name is the first three letters
month_name ==
    << <<"j", "a", "n", "u", "a", "r", "y">>,
       <<"f", "e", "b", "r", "u", "a", "r", "y">>,
       <<"m", "a", "r", "c", "h">>,
       <<"a", "p", "r", "i", "l">>,
       <<"m", "a", "y">>,
       <<"j", "u", "n", "e">>,
       <<"j", "u", "l", "y">>,
       <<"a", "u", "g", "u", "s", "t">>,
       <<"s", "e", "p", "t", "e", "m", "b", "e", "r">>,
       <<"o", "c", "t", "o", "b", "e", "r">>,
       <<"n", "o", "v", "e", "m", "b", "e", "r">>,
       <<"d", "e", "c", "e", "m", "b", "e", "r">> >>

ab_month_name == [i \in 1..12 |-> SubSeq(month_name[i], 1, 3)]

\* strncasecmp(name, rp, strlen(name)) == 0
match_string(name, rp) ==
    /\ Len(rp) >= Len(name)
    /\ \A i \in 1..Len(name) : ToLower(rp[i]) = name[i]

Digits == <<"0", "1", "2", "3", "4", "5", "6", "7", "8", "9">>
IsDigit(c) == \E i \in 1..10 : Digits[i] = c
DigitVal(c) == (CHOOSE i \in 1..10 : Digits[i] = c) - 1

RECURSIVE SkipChars(_, _)
\* rp advanced over the leading characters that are in the set cs
SkipChars(rp, cs) ==
    IF rp # <<>> /\ rp[1] \in cs THEN SkipChars(Tail(rp), cs) ELSE rp

RECURSIVE NumLoop(_, _, _, _)
\* the do-while of get_number after its first digit: one more digit is
\* taken while digits remain to be read, val * 10 <= to and a digit follows
NumLoop(rp, val, n, to) ==
    IF n > 0 /\ val * 10 <= to /\ rp # <<>> /\ IsDigit(rp[1])
    THEN NumLoop(Tail(rp), val * 10 + DigitVal(rp[1]), n - 1, to)
    ELSE [val |-> val, rp |-> rp]

\* get_number(from, to, n): skips blanks, reads at most n digits, fails
\* (strptime returns NULL) without a digit or outside from..to
get_number(rp0, from, to, n) ==
    LET rp == SkipChars(rp0, {" "})
    IN  IF rp = <<>> \/ ~IsDigit(rp[1])
        THEN [ok |-> FALSE, val |-> 0, rp |-> rp]
        ELSE LET r == NumLoop(Tail(rp), DigitVal(rp[1]), n - 1, to)
             IN  [ok |-> r.val >= from /\ r.val <= to, val |-> r.val,
                  rp |-> r.rp]

\* a literal character of the format must be the next input character
match_char(rp, c) == rp # <<>> /\ rp[1] = c

\* strptime(ts, "%B %d %H:%M:%S", &tm): the struct tm it leaves behind, and
\* whether it returns NULL.  A field after the first failing conversion keeps
\* its initial value 0.  %B takes the first month whose full or abbreviated
\* name starts the input, the full name if it fits (a full name starts with
\* its abbreviation)
strptimeRun(ts) ==
    LET tm0 == [tm_mon |-> 0, tm_mday |-> 0, tm_hour |-> 0, tm_min |-> 0,
                tm_sec |-> 0]
        abbr == {i \in 1..12 : match_string(ab_month_name[i], ts)}
        full == {i \in abbr : match_string(month_name[i], ts)}
        hit  == abbr
        cnt  == CHOOSE i \in hit : \A j \in hit : i <= j
        rp1  == IF cnt \in full
                THEN SubSeq(ts, Len(month_name[cnt]) + 1, Len(ts))
                ELSE SubSeq(ts, 4, Len(ts))
        tm1  == [tm0 EXCEPT !.tm_mon = cnt - 1]
        d    == get_number(SkipChars(rp1, WhiteSpace), 1, 31, 2)
        tm2  == [tm1 EXCEPT !.tm_mday = d.val]
        h    == get_number(SkipChars(d.rp, WhiteSpace), 0, 23, 2)
        tm3  == [tm2 EXCEPT !.tm_hour = h.val]
        m    == get_number(Tail(h.rp), 0, 59, 2)
        tm4  == [tm3 EXCEPT !.tm_min = m.val]
        s    == get_number(Tail(m.rp), 0, 61, 2)
        fail(tm) == [null |-> TRUE, tm |-> tm]
    IN  IF hit = {} THEN fail(tm0)
        ELSE IF ~d.ok THEN fail(tm1)
        ELSE IF ~h.ok THEN fail(tm2)
        ELSE IF ~match_char(h.rp, ":") THEN fail(tm3)
        ELSE IF ~m.ok THEN fail(tm3)
        ELSE IF ~match_char(m.rp, ":") THEN fail(tm4)
        ELSE IF ~s.ok THEN fail(tm4)
        ELSE [null |-> FALSE, tm |-> [tm4 EXCEPT !.tm_sec = s.val]]

\* strptime with the format "%B %d %H:%M", the seconds left at 0
strptime_noSeconds(ts) == [strptimeRun(ts).tm EXCEPT !.tm_sec = 0]

\* the struct tm after the call; toSeconds ignores the return value
strptime(ts) == strptimeRun(ts).tm

IsLeap(y) == (y % 4 = 0 /\ y % 100 # 0) \/ y % 400 = 0

\* days of a common year before month index mon (0 = January)
mon_yday == <<0, 31, 59, 90, 120, 151, 181, 212, 243, 273, 304, 334>>

\* days of year y before month index mon
DaysBeforeMonth(y, mon) ==
    mon_yday[mon + 1] + (IF IsLeap(y) /\ mon >= 2 THEN 1 ELSE 0)

\* days from 1970-01-01 to January 1st of year y
DaysBeforeYear(y) ==
    LET leaps(n) == (n \div 4) - (n \div 100) + (n \div 400)
    IN  365 * (y - 1970) + leaps(y - 1) - leaps(1969)

\* mktime: seconds since the Epoch; a day-of-month 0 is the day before the
\* first of the month
mktime(tm, y) ==
    (DaysBeforeYear(y) + DaysBeforeMonth(y, tm.tm_mon) + tm.tm_mday - 1)
        * 86400 + tm.tm_hour * 3600 + tm.tm_min * 60 + tm.tm_sec

\* the year toSeconds assumes when none is passed
DefaultYear == 2021

toSeconds(timestamp) == mktime(strptime(timestamp), DefaultYear)

(***************************************************************************)
(* Inputs of a run: the command line, the two lookup files and the lines   *)
(* the web server sends.                                                   *)
(***************************************************************************)
SP == <<" ">>

Bob      == <<"b", "o", "b">>
Alice    == <<"a", "l", "i", "c", "e">>
BannedIP == <<"1", "0", ".", "0", ".", "0", ".", "5">>
GoodIP   == <<"1", "0", ".", "0", ".", "0", ".", "9">>

\* the content of banned_ips.txt and of authorized_users.txt
BannedFile     == BannedIP \o <<"\n">>
AuthorizedFile == Alice \o <<"\n">>

\* one line of the ssh log: Month Day Time, five ignored words, the user,
\* one ignored word, the IP
LogLine(hms, user, addr) ==
    <<"J", "u", "n">> \o SP \o <<"1", "0">> \o SP \o hms \o SP \o <<"h">> \o SP
        \o <<"s", "s", "h", "d", ":">> \o SP \o <<"F", "a", "i", "l", "e", "d">> \o SP
        \o <<"p", "w">> \o SP \o <<"f", "o", "r">> \o SP \o user \o SP
        \o <<"f", "r", "o", "m">> \o SP \o addr

T00 == <<"1", "0", ":", "0", "0", ":", "0", "0">>
T05 == <<"1", "0", ":", "0", "0", ":", "0", "5">>
T10 == <<"1", "0", ":", "0", "0", ":", "1", "0">>
T20 == <<"1", "0", ":", "0", "0", ":", "2", "0">>
T21 == <<"1", "0", ":", "0", "0", ":", "2", "1">>

\* a line with only the timestamp fields
ShortLine == <<"J", "u", "n">> \o SP \o <<"1", "0">> \o SP \o T21

\* the lines the server may send after the headers
BodyLines ==
    {LogLine(t, Bob, GoodIP) : t \in {T00, T05, T10, T20, T21}}
        \cup {LogLine(T10, Alice, GoodIP), LogLine(T10, Bob, BannedIP),
              <<>>, ShortLine}

\* the header lines the server may send, as std::getline returns them
HeaderLines == {<<"H", "T", "T", "P", "/", "1", ".", "1", " ", "2", "0", "0", " ", "O", "K">>, <<"H", "T", "T", "P", "/", "1", ".", "1", " ", "2", "0", "0", " ", "O", "K">> \o <<"\r">>}

\* the lines that end the headers
BlankLines == {<<>>, <<"\r">>}

\* the URLs given on the command line of a whole run
RunURLs == {<<"h", "t", "t", "p", ":", "/", "/", "h", ".", "i", "o", ":", "8", "0", "8", "0", "/", "a", ".", "t", "x", "t">>,
            <<"h", "t", "t", "p", ":", "/", "/", "h", ".", "i", "o">>}

\* the URLs breakDownURL is tried on: with and without "//", a port, a path
URLs ==
    {scheme \o hst \o prt \o pth :
        scheme \in {<<"h", "t", "t", "p", ":", "/", "/">>, <<>>},
        hst \in {<<"h", ".", "i", "o">>, <<"a">>},
        prt \in {<<>>, <<":", "8", "0", "8", "0">>, <<":", "8">>},
        pth \in {<<>>, <<"/">>, <<"/", "a", ".", "t", "x", "t">>, <<"/", "l", "o", "g", "s", "/", "a", ".", "t", "x", "t">>, <<"/", "a", ":", "b", "/", "c">>}}

(***************************************************************************)
(* The state of the process.                                               *)
(***************************************************************************)
VARIABLES
    pc,               \* position in main
    argc, url,        \* the command line
    host, port, path, \* main's std::tie(host, port, path)
    sock,             \* tcp::iostream is: status, peer and request sent
    hdr,              \* the header line last read by the skipping loop
    bannedIPs, authorizedUsers,             \* the two LookupMaps (key sets)
    line, month, day, time, userID, ip, dummy,  \* strings of processLogs
    loginTimes,       \* LoginTimes: user |-> sequence of seconds
    lineCount, hackCount,
    nread,            \* lines std::getline has handed to processLogs
    out,              \* what was written to std::cout, in order
    exitCode,         \* -1 while running
    readable,         \* the lookup files that std::ifstream can open
    recv,             \* history: the lines std::getline took from the socket
    seen,             \* history: the lines the body of processLogs ran on
    probe             \* a function applied on its own: arguments and results

vars == <<pc, argc, url, host, port, path, sock, hdr, bannedIPs,
          authorizedUsers, line, month, day, time, userID, ip, dummy,
          loginTimes, lineCount, hackCount, nread, out, exitCode, readable,
          recv, seen, probe>>

mainVars == <<argc, url, host, port, path>>
logVars  == <<line, month, day, time, userID, ip, dummy, loginTimes,
              lineCount, hackCount, nread>>
lookupVars == <<bannedIPs, authorizedUsers>>
envVars == <<readable, probe>>
histVars == <<recv, seen>>

\* the names of the two lookup files, lines 246-247
BannedName == "banned_ips.txt"
AuthorizedName == "authorized_users.txt"

\* exit status of a process ended by std::terminate (SIGABRT)
Aborted == 134

\* the objects of main and of processLogs as they are constructed
Fresh ==
    /\ host = <<>> /\ port = <<>> /\ path = <<>>
    /\ sock = [status |-> "unconnected", host |-> <<>>, port |-> <<>>,
               request |-> <<>>]
    /\ hdr = <<>>
    /\ bannedIPs = {} /\ authorizedUsers = {}
    /\ line = <<>> /\ month = <<>> /\ day = <<>> /\ time = <<>>
    /\ userID = <<>> /\ ip = <<>> /\ dummy = <<>>
    /\ loginTimes = <<>>
    /\ lineCount = 0 /\ hackCount = 0 /\ nread = 0
    /\ out = <<>>
    /\ exitCode = -1
    /\ recv = <<>> /\ seen = <<>>
    /\ probe = <<>>

InitWith(urls) ==
    /\ pc = "main"
    /\ argc \in {1, 2}
    /\ url \in (IF argc = 2 THEN urls ELSE {<<>>})
    /\ readable \in SUBSET {BannedName, AuthorizedName}
    /\ Fresh

Init == InitWith(RunURLs)

(***************************************************************************)
(* The helpers of processLogs.                                             *)
(***************************************************************************)
\* loadLookup: every whitespace-delimited entry of the file becomes a key
loadLookup(content) ==
    LET toks == Tokens(content) IN {toks[i] : i \in 1..Len(toks)}

\* the vector loginTimes[userID], empty when the user has no entry
History(lt, user) == IF user \in DOMAIN lt THEN lt[user] ELSE <<>>

\* loginTime that keeps the four most recent entries of a vector only
loginTime_lastFour(mon, dy, tim, user, lt) ==
    LET timeStamp == mon \o SP \o dy \o SP \o tim
        seconds   == toSeconds(timeStamp)
        v         == Append(History(lt, user), seconds)
        kept      == SubSeq(v, IF Len(v) > 4 THEN Len(v) - 3 ELSE 1, Len(v))
    IN  IF user \notin DOMAIN lt
        THEN (user :> kept) @@ lt
        ELSE [lt EXCEPT ![user] = kept]

\* loginTime that assigns a new one-entry vector for a known user too
loginTime_overwrite(mon, dy, tim, user, lt) ==
    LET timeStamp == mon \o SP \o dy \o SP \o tim
        seconds   == toSeconds(timeStamp)
    IN  IF user \notin DOMAIN lt
        THEN (user :> <<seconds>>) @@ lt
        ELSE [lt EXCEPT ![user] = <<seconds>>]

\* loginTime: the seconds of "month day time" are appended to the vector of
\* userID, which is created with this one entry when the user is new
loginTime(mon, dy, tim, user, lt) ==
    LET timeStamp == mon \o SP \o dy \o SP \o tim
        seconds   == toSeconds(timeStamp)
    IN  IF user \notin DOMAIN lt
        THEN (user :> <<seconds>>) @@ lt
        ELSE [lt EXCEPT ![user] = Append(@, seconds)]

\* frequencyHacking with the span compared by < instead of <=
frequencyHacking_strict(lt, authorized, user) ==
    LET v == History(lt, user)
        i == Len(v) - 1
    IN  [isViolation |-> /\ user \notin authorized
                         /\ Len(v) > 3
                         /\ v[i + 1] - v[i - 3 + 1] < 20,
         loginTimes  |-> IF user \notin authorized /\ user \notin DOMAIN lt
                         THEN (user :> <<>>) @@ lt ELSE lt]

\* frequencyHacking without the look-up in authorizedUsers
frequencyHacking_noAuth(lt, authorized, user) ==
    LET v == History(lt, user)
        i == Len(v) - 1
    IN  [isViolation |-> Len(v) > 3 /\ v[i + 1] - v[i - 3 + 1] <= 20,
         loginTimes  |-> IF user \notin DOMAIN lt
                         THEN (user :> <<>>) @@ lt ELSE lt]

\* frequencyHacking with every four consecutive entries of the vector tested
frequencyHacking_anyWindow(lt, authorized, user) ==
    LET v == History(lt, user)
    IN  [isViolation |-> /\ user \notin authorized
                         /\ \E i \in 4..Len(v) : v[i] - v[i - 3] <= 20,
         loginTimes  |-> IF user \notin authorized /\ user \notin DOMAIN lt
                         THEN (user :> <<>>) @@ lt ELSE lt]

\* frequencyHacking: isViolation, and the map after the call (operator[]
\* inserts an empty vector for a user that is not authorized and has none)
frequencyHacking(lt, authorized, user) ==
    LET v == History(lt, user)
        i == Len(v) - 1
    IN  [isViolation |-> /\ user \notin authorized
                         /\ Len(v) > 3
                         /\ v[i + 1] - v[i - 3 + 1] <= 20,
         loginTimes  |-> IF user \notin authorized /\ user \notin DOMAIN lt
                         THEN (user :> <<>>) @@ lt ELSE lt]

\* the extraction chain of processLogs on one line: month, day, time, five
\* times dummy, userID, dummy, ip; f holds the strings before the line
parseLine(f, l) ==
    LET toks == Tokens(l)
        d4   == Extract(f.dummy, toks, 4)
        d5   == Extract(d4, toks, 5)
        d6   == Extract(d5, toks, 6)
        d7   == Extract(d6, toks, 7)
        d8   == Extract(d7, toks, 8)
    IN  [month  |-> Extract(f.month, toks, 1),
         day    |-> Extract(f.day, toks, 2),
         time   |-> Extract(f.time, toks, 3),
         userID |-> Extract(f.userID, toks, 9),
         dummy  |-> Extract(d8, toks, 10),
         ip     |-> Extract(f.ip, toks, 11)]

(***************************************************************************)
(* The steps of main.                                                      *)
(***************************************************************************)
\* main, lines 233-237: the usage message, or the url is taken from argv
Start ==
    /\ pc = "main"
    /\ IF argc < 2
       THEN /\ out' = Append(out, <<"usage">>)
            /\ exitCode' = 1
            /\ pc' = "done"
       ELSE /\ pc' = "breakDownURL"
            /\ UNCHANGED <<out, exitCode>>
    /\ UNCHANGED <<mainVars, sock, hdr, lookupVars, logVars, envVars,
                   histVars>>

\* main, line 240: an exception of breakDownURL is not caught, the process
\* is terminated before std::tie assigns
BreakDownURL ==
    /\ pc = "breakDownURL"
    /\ LET r == breakDownURL(url)
       IN  IF r.threw
           THEN /\ pc' = "aborted"
                /\ exitCode' = Aborted
                /\ UNCHANGED <<host, port, path>>
           ELSE /\ pc' = "setupDownload"
                /\ host' = r.hostName
                /\ port' = r.port
                /\ path' = r.path
                /\ UNCHANGED exitCode
    /\ UNCHANGED <<argc, url, sock, hdr, lookupVars, logVars, out, envVars,
                   histVars>>

\* setupDownload(hostName, path, data, port): connect and send the request;
\* a failed connect leaves the stream in a failed state and throws nothing
setupDownload(hostName, pth, prt, connected) ==
    IF connected
    THEN [status |-> "open", host |-> hostName, port |-> prt,
          request |-> <<pth, hostName>>]
    ELSE [status |-> "failed", host |-> hostName, port |-> prt,
          request |-> <<>>]

\* main, line 241: the port argument is left to its default "80"
SetupDownload ==
    /\ pc = "setupDownload"
    /\ \E connected \in BOOLEAN :
          sock' = setupDownload(host, path, <<"8", "0">>, connected)
    /\ pc' = "skipHeaders"
    /\ UNCHANGED <<mainVars, hdr, lookupVars, logVars, out, exitCode,
                   envVars, histVars>>

\* the loop that skips the headers ended by an empty line only
headerLoopContinues_emptyOnly(h) == h # <<>>

\* main, line 244: the loop that skips the headers goes on after this line
headerLoopContinues(h) == h # <<>> /\ h # <<"\r">>

\* main, lines 243-245: one std::getline of the loop that skips the headers,
\* on a response whose lines are among lines; the loop ends on the first
\* blank line, or when std::getline fails (end of the stream, or a stream
\* that never connected)
SkipHeaderFrom(lines, rec) ==
    /\ pc = "skipHeaders"
    /\ \/ /\ sock.status = "open"
          /\ rec => Len(recv) < MaxRecv
          /\ \E h \in lines :
                /\ recv' = IF rec THEN Append(recv, h) ELSE recv
                /\ IF headerLoopContinues(h)
                   THEN hdr' = h /\ pc' = pc
                   ELSE hdr' = <<>> /\ pc' = "loadBanned"
          /\ UNCHANGED sock
       \/ /\ hdr' = <<>>
          /\ pc' = "loadBanned"
          /\ sock' = IF sock.status = "open"
                     THEN [sock EXCEPT !.status = "eof"] ELSE sock
          /\ UNCHANGED recv
    /\ UNCHANGED <<mainVars, lookupVars, logVars, out, exitCode, envVars,
                   seen>>

SkipHeader == SkipHeaderFrom(HeaderLines \cup BlankLines, FALSE)

\* main, line 238 and the end of main: the destructor of the stream closes
\* the socket it holds
destroy(s) ==
    IF s.status \in {"open", "eof"} THEN [s EXCEPT !.status = "closed"] ELSE s

\* main, lines 246-247: loadLookup throws when the file cannot be opened and
\* main has no handler: std::terminate is called, and whether the stack is
\* unwound (the stream destroyed) before that is left to the implementation
LoadBanned ==
    /\ pc = "loadBanned"
    /\ IF BannedName \in readable
       THEN /\ bannedIPs' = loadLookup(BannedFile)
            /\ pc' = "loadAuthorized"
            /\ UNCHANGED <<exitCode, sock>>
       ELSE /\ pc' = "aborted"
            /\ exitCode' = Aborted
            /\ \E unwound \in BOOLEAN :
                  sock' = IF unwound THEN destroy(sock) ELSE sock
            /\ UNCHANGED bannedIPs
    /\ UNCHANGED <<mainVars, hdr, authorizedUsers, logVars, out, envVars,
                   histVars>>

\* the second call with a file that cannot be opened taken for an empty file
LoadAuthorized_emptySet ==
    /\ pc = "loadAuthorized"
    /\ authorizedUsers' = IF AuthorizedName \in readable
                          THEN loadLookup(AuthorizedFile) ELSE {}
    /\ pc' = "processLogs"
    /\ UNCHANGED <<mainVars, sock, hdr, bannedIPs, logVars, out, exitCode,
                   envVars, histVars>>

LoadAuthorized ==
    /\ pc = "loadAuthorized"
    /\ IF AuthorizedName \in readable
       THEN /\ authorizedUsers' = loadLookup(AuthorizedFile)
            /\ pc' = "processLogs"
            /\ UNCHANGED <<exitCode, sock>>
       ELSE /\ pc' = "aborted"
            /\ exitCode' = Aborted
            /\ \E unwound \in BOOLEAN :
                  sock' = IF unwound THEN destroy(sock) ELSE sock
            /\ UNCHANGED authorizedUsers
    /\ UNCHANGED <<mainVars, hdr, bannedIPs, logVars, out, envVars,
                   histVars>>

\* the body of the loop with the banned-IP line recorded by loginTime too
processLine_recordBanned(s, l, banned, authorized) ==
    LET f  == parseLine(s, l)
        lt == loginTime(f.month, f.day, f.time, f.userID, s.loginTimes)
        fh == frequencyHacking(lt, authorized, f.userID)
        r  == [month |-> f.month, day |-> f.day, time |-> f.time,
               userID |-> f.userID, dummy |-> f.dummy, ip |-> f.ip,
               loginTimes |-> lt, hackCount |-> s.hackCount,
               lineCount |-> s.lineCount + 1, msgs |-> <<>>]
    IN  IF f.ip \in banned
        THEN [r EXCEPT !.hackCount = s.hackCount + 1, !.msgs = <<"banned">>]
        ELSE IF fh.isViolation
        THEN [r EXCEPT !.loginTimes = fh.loginTimes,
                       !.hackCount = s.hackCount + 1,
                       !.msgs = <<"frequency">>]
        ELSE [r EXCEPT !.loginTimes = fh.loginTimes]

\* the body of the loop with lineCount++ moved into the else branch
processLine_skipCount(s, l, banned, authorized) ==
    LET f  == parseLine(s, l)
        lt == loginTime(f.month, f.day, f.time, f.userID, s.loginTimes)
        fh == frequencyHacking(lt, authorized, f.userID)
        r  == [month |-> f.month, day |-> f.day, time |-> f.time,
               userID |-> f.userID, dummy |-> f.dummy, ip |-> f.ip,
               loginTimes |-> s.loginTimes, hackCount |-> s.hackCount,
               lineCount |-> s.lineCount, msgs |-> <<>>]
    IN  IF f.ip \in banned
        THEN [r EXCEPT !.hackCount = s.hackCount + 1, !.msgs = <<"banned">>]
        ELSE IF fh.isViolation
        THEN [r EXCEPT !.loginTimes = fh.loginTimes,
                       !.hackCount = s.hackCount + 1,
                       !.lineCount = s.lineCount + 1,
                       !.msgs = <<"frequency">>]
        ELSE [r EXCEPT !.loginTimes = fh.loginTimes,
                       !.lineCount = s.lineCount + 1]

\* the body of the loop with the frequency rule applied after the
\* banned-IP rule instead of in its else branch
processLine_bothRules(s, l, banned, authorized) ==
    LET f  == parseLine(s, l)
        lt == loginTime(f.month, f.day, f.time, f.userID, s.loginTimes)
        fh == frequencyHacking(lt, authorized, f.userID)
        b  == IF f.ip \in banned THEN <<"banned">> ELSE <<>>
        q  == IF fh.isViolation THEN <<"frequency">> ELSE <<>>
    IN  [month |-> f.month, day |-> f.day, time |-> f.time,
         userID |-> f.userID, dummy |-> f.dummy, ip |-> f.ip,
         loginTimes |-> fh.loginTimes,
         hackCount |-> s.hackCount + Len(b) + Len(q),
         lineCount |-> s.lineCount + 1, msgs |-> b \o q]

\* the body of the loop with a line whose timestamp strptime rejects skipped
\* before it is tested or counted
processLine_skipBadTime(s, l, banned, authorized) ==
    LET f  == parseLine(s, l)
        lt == loginTime(f.month, f.day, f.time, f.userID, s.loginTimes)
        fh == frequencyHacking(lt, authorized, f.userID)
        r  == [month |-> f.month, day |-> f.day, time |-> f.time,
               userID |-> f.userID, dummy |-> f.dummy, ip |-> f.ip,
               loginTimes |-> s.loginTimes, hackCount |-> s.hackCount,
               lineCount |-> s.lineCount + 1, msgs |-> <<>>]
    IN  IF strptimeRun(f.month \o SP \o f.day \o SP \o f.time).null
        THEN [r EXCEPT !.lineCount = s.lineCount]
        ELSE IF f.ip \in banned
        THEN [r EXCEPT !.hackCount = s.hackCount + 1, !.msgs = <<"banned">>]
        ELSE IF fh.isViolation
        THEN [r EXCEPT !.loginTimes = fh.loginTimes,
                       !.hackCount = s.hackCount + 1,
                       !.msgs = <<"frequency">>]
        ELSE [r EXCEPT !.loginTimes = fh.loginTimes]

\* processLogs, lines 180-192: the body of the while loop on line l; s holds
\* the strings, the map and the two counters before the line, the result
\* holds them after it, with the kinds of the messages written to std::cout
processLine(s, l, banned, authorized) ==
    LET f  == parseLine(s, l)
        lt == loginTime(f.month, f.day, f.time, f.userID, s.loginTimes)
        fh == frequencyHacking(lt, authorized, f.userID)
        r  == [month |-> f.month, day |-> f.day, time |-> f.time,
               userID |-> f.userID, dummy |-> f.dummy, ip |-> f.ip,
               loginTimes |-> s.loginTimes, hackCount |-> s.hackCount,
               lineCount |-> s.lineCount + 1, msgs |-> <<>>]
    IN  IF f.ip \in banned
        THEN [r EXCEPT !.hackCount = s.hackCount + 1, !.msgs = <<"banned">>]
        ELSE IF fh.isViolation
        THEN [r EXCEPT !.loginTimes = fh.loginTimes,
                       !.hackCount = s.hackCount + 1,
                       !.msgs = <<"frequency">>]
        ELSE [r EXCEPT !.loginTimes = fh.loginTimes]

\* the locals of processLogs as a record
Locals ==
    [month |-> month, day |-> day, time |-> time, userID |-> userID,
     dummy |-> dummy, ip |-> ip, loginTimes |-> loginTimes,
     hackCount |-> hackCount, lineCount |-> lineCount]

\* processLogs, lines 179-193: std::getline hands over the next line of the
\* server, one of lines, and the body of the loop runs on it (r, bound through
\* a singleton set, is the outcome of the body, computed once)
ProcessLineFrom(lines, rec) ==
    /\ pc = "processLogs"
    /\ sock.status = "open"
    /\ lineCount < MaxLines
    /\ rec => Len(recv) < MaxRecv
    /\ \E l \in lines :
       \E r \in {processLine(Locals, l, bannedIPs, authorizedUsers)} :
          /\ line' = l
          /\ nread' = nread + 1
          /\ recv' = IF rec THEN Append(recv, l) ELSE recv
          /\ seen' = IF rec THEN Append(seen, l) ELSE seen
          /\ month' = r.month /\ day' = r.day /\ time' = r.time
          /\ userID' = r.userID /\ dummy' = r.dummy /\ ip' = r.ip
          /\ loginTimes' = r.loginTimes
          /\ hackCount' = r.hackCount
          /\ lineCount' = r.lineCount
          /\ out' = out \o [i \in 1..Len(r.msgs) |-> <<r.msgs[i], l>>]
    /\ UNCHANGED <<pc, mainVars, sock, hdr, lookupVars, exitCode, envVars>>

ProcessLine == ProcessLineFrom(BodyLines, FALSE)

\* processLogs, lines 194-195, and main, line 249: std::getline fails, the
\* summary is printed, main returns 0 and the stream is destroyed
Summary ==
    /\ pc = "processLogs"
    /\ out' = Append(out, <<"summary", lineCount, hackCount>>)
    /\ sock' = destroy(sock)
    /\ exitCode' = 0
    /\ pc' = "done"
    /\ UNCHANGED <<mainVars, hdr, lookupVars, logVars, envVars, histVars>>

Next ==
    \/ Start
    \/ BreakDownURL
    \/ SetupDownload
    \/ SkipHeader
    \/ LoadBanned
    \/ LoadAuthorized
    \/ ProcessLine
    \/ Summary

Spec == Init /\ [][Next]_vars

\* the resolution of the URL and the connection alone, on all of URLs
InitURL == InitWith(URLs)

NextURL ==
    \/ Start
    \/ BreakDownURL
    \/ SetupDownload

SpecURL == InitURL /\ [][NextURL]_vars

\* a time of day that strptime cannot convert
BadTime == <<"1", "0", ":", "0", "x", ":", "0", "0">>

\* the lines of a recorded response, each of which may come before or after
\* the blank line: a status line, the two blank lines, a well-formed log
\* line and a log line with a bad timestamp and a banned IP
FetchLines ==
    {<<"H", "T", "T", "P", "/", "1", ".", "1", " ", "2", "0", "0", " ", "O", "K", "\r">>,
     <<>>, <<"\r">>, LogLine(T10, Bob, GoodIP), LogLine(BadTime, Bob, BannedIP)}

\* the two loops that read the response, with the lines read recorded
FetchHeader == SkipHeaderFrom(FetchLines, TRUE)

FetchLine == ProcessLineFrom(FetchLines, TRUE)

\* a whole run on a response of at most MaxRecv lines taken from FetchLines
NextFetch ==
    \/ Start
    \/ BreakDownURL
    \/ SetupDownload
    \/ FetchHeader
    \/ LoadBanned
    \/ LoadAuthorized
    \/ FetchLine
    \/ Summary

SpecFetch == Init /\ [][NextFetch]_vars

\* the body of the response is finite: std::getline of processLogs fails in
\* the end
FairSpecFetch == SpecFetch /\ WF_vars(Summary)

(***************************************************************************)
(* toSeconds on its own, applied to two well-formed timestamps.            *)
(***************************************************************************)
\* months as a log writes them, with their number
StampMonths ==
    {[n |-> 1, text |-> <<"J", "a", "n">>],
     [n |-> 2, text |-> <<"F", "e", "b", "r", "u", "a", "r", "y">>],
     [n |-> 3, text |-> <<"M", "a", "r">>],
     [n |-> 6, text |-> <<"J", "u", "n">>],
     [n |-> 12, text |-> <<"D", "e", "c">>]}

StampDays  == {1, 10, 28}
StampHours == {3, 23}
StampMins  == {32}
StampSecs  == {36, 40}

\* a number below 100 in two digits, and in as many digits as it needs
TwoDigits(n) == <<Digits[(n \div 10) + 1], Digits[(n % 10) + 1]>>
Decimal(n) == IF n < 10 THEN <<Digits[n + 1]>> ELSE TwoDigits(n)

\* the timestamp "Month day HH:MM:SS" of the fields
StampText(m, d, hh, mm, ss) ==
    m.text \o SP \o Decimal(d) \o SP
        \o TwoDigits(hh) \o <<":">> \o TwoDigits(mm) \o <<":">> \o TwoDigits(ss)

\* most timestamps converted in one run of SpecTime
MaxStamps == 2

InitTime ==
    /\ pc = "toSeconds"
    /\ argc = 1 /\ url = <<>>
    /\ readable = {BannedName, AuthorizedName}
    /\ Fresh

\* one call of toSeconds with the default year
Convert ==
    /\ pc = "toSeconds"
    /\ Len(probe) < MaxStamps
    /\ \E m \in StampMonths, d \in StampDays, hh \in StampHours,
          mm \in StampMins, ss \in StampSecs :
          probe' = Append(probe,
                      [mon |-> m.n, mday |-> d, hour |-> hh, min |-> mm,
                       sec |-> ss,
                       timestamp |-> StampText(m, d, hh, mm, ss),
                       seconds |-> toSeconds(StampText(m, d, hh, mm, ss))])
    /\ UNCHANGED <<pc, mainVars, sock, hdr, lookupVars, logVars, out, exitCode,
                   readable, histVars>>

NextTime == Convert

SpecTime == InitTime /\ [][NextTime]_vars

(***************************************************************************)
(* frequencyHacking on its own, applied to two histories of one user that  *)
(* end with the same entries.                                              *)
(***************************************************************************)
\* the seconds found in the histories
FreqTimes == {0, 20, 41}

\* most entries of a history before its last four
MaxOld == 1

\* the sequences over S of length n, and of length at most n
SeqN(S, n) == [1..n -> S]
SeqUpTo(S, n) == UNION {SeqN(S, k) : k \in 0..n}

InitFreq ==
    /\ pc = "frequencyHacking"
    /\ argc = 1 /\ url = <<>>
    /\ readable = {BannedName, AuthorizedName}
    /\ host = <<>> /\ port = <<>> /\ path = <<>>
    /\ sock = [status |-> "unconnected", host |-> <<>>, port |-> <<>>,
               request |-> <<>>]
    /\ hdr = <<>>
    /\ bannedIPs = loadLookup(BannedFile)
    /\ authorizedUsers = loadLookup(AuthorizedFile)
    /\ line = <<>> /\ month = <<>> /\ day = <<>> /\ time = <<>>
    /\ userID = Bob /\ ip = <<>> /\ dummy = <<>>
    /\ loginTimes = <<>>
    /\ lineCount = 0 /\ hackCount = 0 /\ nread = 0
    /\ out = <<>>
    /\ exitCode = -1
    /\ recv = <<>> /\ seen = <<>>
    /\ \E tail \in SeqUpTo(FreqTimes, 4) :
       \E old1, old2 \in (IF Len(tail) = 4 THEN SeqUpTo(FreqTimes, MaxOld)
                          ELSE {<<>>}) :
          probe = [h1 |-> old1 \o tail, h2 |-> old2 \o tail, asked |-> FALSE,
                   d1 |-> FALSE, d2 |-> FALSE]

\* the two calls of frequencyHacking, each on the map that holds one of the
\* two histories for userID
Query ==
    /\ pc = "frequencyHacking"
    /\ ~probe.asked
    /\ probe' = [probe EXCEPT
                    !.asked = TRUE,
                    !.d1 = frequencyHacking((userID :> probe.h1),
                               authorizedUsers, userID).isViolation,
                    !.d2 = frequencyHacking((userID :> probe.h2),
                               authorizedUsers, userID).isViolation]
    /\ UNCHANGED <<pc, mainVars, sock, hdr, lookupVars, logVars, out, exitCode,
                   readable, histVars>>

NextFreq == Query

SpecFreq == InitFreq /\ [][NextFreq]_vars

(***************************************************************************)
(* Properties of processLogs.                                              *)
(***************************************************************************)
\* a step of the while loop of processLogs
LineStep == lineCount' = lineCount + 1

\* the messages the step has added to std::cout
NewOut == SubSeq(out', Len(out) + 1, Len(out'))

\* the number of "Hacking due to ..." messages among the messages o
FlagCount(o) ==
    Cardinality({i \in 1..Len(o) : o[i][1] \in {"banned", "frequency"}})

\* C1: for a line whose user is not authorized and whose IP is not banned,
\* the timestamp is appended to the history of the user, and the line is
\* flagged for frequency (message and hackCount + 1) exactly when the history
\* then has more than 3 entries and its last entry is at most 20 seconds
\* after the entry three positions before it; otherwise nothing is flagged
C1_FrequencyRule ==
    [][(LineStep /\ ip' \notin bannedIPs /\ userID' \notin authorizedUsers)
          => LET old == History(loginTimes, userID')
                 h   == History(loginTimes', userID')
                 flagged == /\ out' = Append(out, <<"frequency", line'>>)
                            /\ hackCount' = hackCount + 1
             IN  /\ Len(h) = Len(old) + 1
                 /\ SubSeq(h, 1, Len(old)) = old
                 /\ flagged <=> (Len(h) > 3 /\ h[Len(h)] - h[Len(h) - 3] <= 20)
                 /\ ~flagged => (out' = out /\ hackCount' = hackCount)]_vars

\* four logins of bob at increasing times 20 seconds apart in all, the
\* fourth one flagged and the first three not
C1_Witness ==
    /\ pc = "processLogs" /\ lineCount = 4
    /\ userID = Bob /\ ip = GoodIP /\ Bob \in DOMAIN loginTimes
    /\ LET h == loginTimes[Bob]
       IN  /\ Len(h) = 4
           /\ h[1] < h[2] /\ h[2] < h[3] /\ h[3] < h[4]
           /\ h[4] - h[1] = 20
    /\ out = << <<"frequency", line>> >>
    /\ hackCount = 1

\* C2: a line whose IP is banned is flagged as a banned-IP hit, hackCount
\* goes up by one and the login history of every user stays as it was; a
\* run of one such line has hackCount 1 and no history at all
C2_BannedNotRecorded ==
    /\ []((lineCount = 1 /\ ip \in bannedIPs)
             => (hackCount = 1 /\ loginTimes = <<>>))
    /\ [][(LineStep /\ ip' \in bannedIPs)
             => /\ loginTimes' = loginTimes
                /\ hackCount' = hackCount + 1
                /\ out' = Append(out, <<"banned", line'>>)]_vars

\* bob comes from the banned IP after alice has logged in: the line is
\* flagged and bob has no history
C2_Witness ==
    /\ pc = "processLogs" /\ lineCount = 2
    /\ line = LogLine(T10, Bob, BannedIP)
    /\ userID = Bob /\ ip = BannedIP
    /\ Alice \in DOMAIN loginTimes /\ Bob \notin DOMAIN loginTimes
    /\ hackCount = 1
    /\ out = << <<"banned", line>> >>

\* C3: a line whose user is authorized is never flagged for frequency
C3_AuthorizedNeverFlagged ==
    [][(LineStep /\ userID' \in authorizedUsers)
          => \A i \in 1..Len(NewOut) : NewOut[i][1] # "frequency"]_vars

\* alice, authorized, has logged in 4 times within 20 seconds and no line
\* was flagged
C3_Witness ==
    /\ pc = "processLogs" /\ lineCount = 4
    /\ line = LogLine(T10, Alice, GoodIP)
    /\ userID = Alice /\ Alice \in authorizedUsers
    /\ Alice \in DOMAIN loginTimes
    /\ LET h == loginTimes[Alice]
       IN  Len(h) = 4 /\ h[4] - h[1] <= 20
    /\ hackCount = 0 /\ out = <<>>

\* C4: after every line lineCount is the number of lines read from the body
\* and hackCount is the number of banned-IP and frequency messages written,
\* and the summary reports these two numbers
C4_Counts ==
    /\ lineCount = nread
    /\ hackCount = FlagCount(out)
    /\ (pc = "done" /\ exitCode = 0)
          => /\ out # <<>>
             /\ out[Len(out)] =
                   <<"summary", nread, FlagCount(SubSeq(out, 1, Len(out) - 1))>>

\* a finished run of 5 lines with one banned-IP flag, one frequency flag and
\* three lines that were not flagged
C4_Witness ==
    /\ pc = "done" /\ exitCode = 0
    /\ nread = 5 /\ hackCount = 2
    /\ \E i, j \in 1..Len(out) : out[i][1] = "banned" /\ out[j][1] = "frequency"

\* C5: a line raises hackCount by at most 1 and writes at most one message,
\* and a line from a banned IP gets no frequency message
C5_AtMostOneFlag ==
    [][/\ hackCount' <= hackCount + 1
       /\ Len(out') <= Len(out) + 1
       /\ (LineStep /\ ip' \in bannedIPs)
             => \A i \in 1..Len(NewOut) : NewOut[i][1] # "frequency"]_vars

\* a banned-IP line of bob whose timestamp is within 20 seconds of bob's
\* third last recorded login: flagged once, as a banned IP
C5_Witness ==
    /\ pc = "processLogs" /\ lineCount = 4
    /\ userID = Bob /\ ip = BannedIP /\ Bob \notin authorizedUsers
    /\ Bob \in DOMAIN loginTimes
    /\ LET h == loginTimes[Bob]
       IN  /\ Len(h) = 3
           /\ toSeconds(month \o SP \o day \o SP \o time) - h[1] <= 20
    /\ hackCount = 1
    /\ out = << <<"banned", line>> >>

\* the k-th whitespace-delimited field of a line, empty when it is missing
FieldOf(l, k) ==
    LET toks == Tokens(l) IN IF k <= Len(toks) THEN toks[k] ELSE <<>>

\* C6: the fields extracted for a line are the fields of that line's own
\* text, a missing field being the empty string
C6_MissingFieldsEmpty ==
    lineCount > 0
        => /\ month = FieldOf(line, 1)
           /\ day = FieldOf(line, 2)
           /\ time = FieldOf(line, 3)
           /\ userID = FieldOf(line, 9)
           /\ ip = FieldOf(line, 11)

\* C7: a line that has no user field and no IP field is not flagged
C7_MalformedNotFlagged ==
    [][(LineStep /\ Len(Tokens(line')) < 9)
          => (out' = out /\ hackCount' = hackCount)]_vars

(***************************************************************************)
(* Properties of breakDownURL and setupDownload.                           *)
(***************************************************************************)
\* the url has the scheme separator
HasScheme(u) == findStr(u, <<"/", "/">>) # npos

\* the text of the url after the scheme separator
AfterScheme(u) == SubSeq(u, findStr(u, <<"/", "/">>) + 3, Len(u))

\* the position (from 1) of the first c in s, Len(s) + 1 when there is none
FirstPos(s, c) ==
    IF \E i \in 1..Len(s) : s[i] = c
    THEN CHOOSE i \in 1..Len(s) : s[i] = c /\ \A j \in 1..(i - 1) : s[j] # c
    ELSE Len(s) + 1

\* host, port and path of a url by the parsing rule: the host ends at the
\* first ':' or '/', a port is given when a ':' comes before the first '/',
\* the path starts at the first '/'
RuleHost(u) ==
    LET r == AfterScheme(u)
        e == IF FirstPos(r, ":") < FirstPos(r, "/")
             THEN FirstPos(r, ":") ELSE FirstPos(r, "/")
    IN  SubSeq(r, 1, e - 1)

RulePort(u) ==
    LET r == AfterScheme(u)
    IN  IF FirstPos(r, ":") < FirstPos(r, "/")
        THEN SubSeq(r, FirstPos(r, ":") + 1, FirstPos(r, "/") - 1)
        ELSE <<"8", "0">>

RulePath(u) ==
    LET r == AfterScheme(u)
    IN  IF FirstPos(r, "/") <= Len(r)
        THEN SubSeq(r, FirstPos(r, "/"), Len(r))
        ELSE <<"/">>

\* main is past the call of breakDownURL
Resolved == argc = 2 /\ pc \notin {"main", "breakDownURL"}

\* C8: the connection is opened to the host and the port that breakDownURL
\* returned
C8_ConnectsToResolvedPort ==
    (Resolved /\ sock.status = "open")
        => (sock.host = host /\ sock.port = port)

\* C9: for a url with "//" and a '/' after the host, breakDownURL returns the
\* host, port and path of the parsing rule
C9_ResolveRule ==
    (Resolved /\ HasScheme(url)
        /\ FirstPos(AfterScheme(url), "/") <= Len(AfterScheme(url)))
        => /\ pc # "aborted"
           /\ host = RuleHost(url)
           /\ port = RulePort(url)
           /\ path = RulePath(url)

\* C10: for a url with "//" and no '/' after the host, breakDownURL succeeds
\* and returns the path "/" with the host and port of the parsing rule
C10_DefaultPath ==
    (Resolved /\ HasScheme(url)
        /\ FirstPos(AfterScheme(url), "/") > Len(AfterScheme(url)))
        => /\ pc # "aborted"
           /\ path = <<"/">>
           /\ host = RuleHost(url)
           /\ port = RulePort(url)

\* C11: a url without "//" is a fatal input error: the run is aborted and no
\* connection is attempted with a host taken from it
C11_NoSchemeIsFatal ==
    (Resolved /\ ~HasScheme(url))
        => (pc = "aborted" /\ sock.status = "unconnected")

\* some line of the output is the summary
SummaryPrinted == \E i \in 1..Len(out) : out[i][1] = "summary"

\* C12: when the connection cannot be established the run ends with a
\* non-zero exit status and prints no summary
C12_ConnectFailureIsFatal ==
    (sock.status = "failed" /\ pc \in {"done", "aborted"})
        => (exitCode # 0 /\ ~SummaryPrinted)

(***************************************************************************)
(* Properties of the lookup files and of the response stream.              *)
(***************************************************************************)
\* one of the two lookup files cannot be opened
LookupMissing == readable # {BannedName, AuthorizedName}

\* C13: when banned_ips.txt or authorized_users.txt cannot be opened the
\* process aborts with an error before any line is processed and before any
\* flag or summary is printed; processLogs never runs on a set that stands
\* for a missing file
C13_MissingLookupAborts ==
    /\ (BannedName \notin readable)
          => pc \notin {"loadAuthorized", "processLogs"}
    /\ LookupMissing
          => /\ pc # "processLogs"
             /\ pc = "done" => argc < 2
             /\ pc = "aborted" => exitCode # 0
             /\ lineCount = 0 /\ nread = 0 /\ loginTimes = <<>>
             /\ \A i \in 1..Len(out) :
                   out[i][1] \notin {"banned", "frequency", "summary"}
    /\ pc = "processLogs"
          => /\ bannedIPs = loadLookup(BannedFile)
             /\ authorizedUsers = loadLookup(AuthorizedFile)

\* the second lookup file is missing: the run was aborted after the headers
\* were read and the first lookup loaded
C13_Witness ==
    /\ pc = "aborted" /\ exitCode = Aborted
    /\ readable = {BannedName}
    /\ bannedIPs = loadLookup(BannedFile)
    /\ sock.status = "open"
    /\ out = <<>>

\* a blank line of the response: empty, or a lone carriage return
IsBlankLine(l) == l = <<>> \/ l = <<"\r">>

\* the position of the first blank line of s
FirstBlank(s) ==
    CHOOSE i \in 1..Len(s) :
        IsBlankLine(s[i]) /\ \A j \in 1..(i - 1) : ~IsBlankLine(s[j])

\* the lines of the response s that come after its first blank line, none
\* when it has no blank line
AfterFirstBlank(s) ==
    IF \E i \in 1..Len(s) : IsBlankLine(s[i])
    THEN SubSeq(s, FirstBlank(s) + 1, Len(s))
    ELSE <<>>

\* C14: the lines up to and including the first blank line never reach the
\* log processor, and every line after it is handed to the processor once,
\* in the order of the stream, later blank lines included; a response
\* without a blank line has no processed line
C14_BodyAfterFirstBlank ==
    /\ seen = AfterFirstBlank(recv)
    /\ lineCount = Len(seen)
    /\ seen # <<>> => line = seen[Len(seen)]
    /\ (\A i \in 1..Len(recv) : ~IsBlankLine(recv[i]))
          => (lineCount = 0 /\ hackCount = 0 /\ loginTimes = <<>>)

\* a status line, the blank line "\r", then an empty line and a log line that
\* were both processed
C14_Witness ==
    /\ Len(recv) = 4
    /\ ~IsBlankLine(recv[1])
    /\ recv[2] = <<"\r">>
    /\ recv[3] = <<>>
    /\ recv[4] = LogLine(T10, Bob, GoodIP)
    /\ seen = <<recv[3], recv[4]>>
    /\ lineCount = 2

(***************************************************************************)
(* Properties of toSeconds.                                                *)
(***************************************************************************)
\* the days of the months of 2021
MonthDays == <<31, 28, 31, 30, 31, 30, 31, 31, 30, 31, 30, 31>>

RECURSIVE DaysUpTo(_)
\* the days of 2021 in the months before month n
DaysUpTo(n) == IF n <= 1 THEN 0 ELSE MonthDays[n - 1] + DaysUpTo(n - 1)

\* the seconds from the start of the year to the moment a converted
\* timestamp names
SecondOfYear(c) ==
    ((DaysUpTo(c.mon) + c.mday - 1) * 24 + c.hour) * 3600 + c.min * 60 + c.sec

\* C15: for two well-formed timestamps of the same year the one that is later
\* in time has the larger value, and the difference of the values is the
\* number of seconds between the two moments; "Jun 10 03:32:36" and
\* "Jun 10 03:32:40" are 4 apart
C15_OrdinalMonotonic ==
    \A i, j \in 1..Len(probe) :
        /\ SecondOfYear(probe[i]) < SecondOfYear(probe[j])
              => probe[i].seconds < probe[j].seconds
        /\ probe[j].seconds - probe[i].seconds
              = SecondOfYear(probe[j]) - SecondOfYear(probe[i])
        /\ (/\ probe[i].timestamp = <<"J", "u", "n", " ", "1", "0", " ", "0", "3", ":", "3", "2", ":", "3", "6">>
            /\ probe[j].timestamp = <<"J", "u", "n", " ", "1", "0", " ", "0", "3", ":", "3", "2", ":", "4", "0">>)
              => probe[j].seconds - probe[i].seconds = 4

\* "Jun 10 03:32:36" and then "Jun 10 03:32:40" were converted
C15_Witness ==
    /\ Len(probe) = 2
    /\ probe[1].timestamp = <<"J", "u", "n", " ", "1", "0", " ", "0", "3", ":", "3", "2", ":", "3", "6">>
    /\ probe[2].timestamp = <<"J", "u", "n", " ", "1", "0", " ", "0", "3", ":", "3", "2", ":", "4", "0">>
    /\ probe[1].seconds < probe[2].seconds

(***************************************************************************)
(* Properties of the login histories.                                      *)
(***************************************************************************)
\* s is the start of t
IsPrefix(s, t) == Len(s) <= Len(t) /\ SubSeq(t, 1, Len(s)) = s

\* C16: the login histories change only by appending: a line whose IP is not
\* banned appends one timestamp at the end of the history of its user (a new
\* history for a first login, and also when the user is authorized or the
\* line is flagged) and leaves the other histories as they are; no step
\* removes, overwrites or reorders an entry, and the frequency test leaves
\* the histories as loginTime made them
C16_AppendOnly ==
    [][/\ \A u \in DOMAIN loginTimes :
             u \in DOMAIN loginTimes' /\ IsPrefix(loginTimes[u], loginTimes'[u])
       /\ ~LineStep => loginTimes' = loginTimes
       /\ (LineStep /\ ip' \in bannedIPs) => loginTimes' = loginTimes
       /\ (LineStep /\ ip' \notin bannedIPs)
             => /\ DOMAIN loginTimes' = DOMAIN loginTimes \cup {userID'}
                /\ loginTimes'[userID']
                      = Append(History(loginTimes, userID'),
                               toSeconds(month' \o SP \o day' \o SP \o time'))
                /\ \A u \in DOMAIN loginTimes \ {userID'} :
                      loginTimes'[u] = loginTimes[u]]_vars

\* bob has four entries, the last one of a flagged line, and the authorized
\* alice has a history too
C16_Witness ==
    /\ Len(History(loginTimes, Bob)) = 4
    /\ Len(History(loginTimes, Alice)) = 1
    /\ userID = Bob
    /\ out # <<>> /\ out[Len(out)] = <<"frequency", line>>

(***************************************************************************)
(* Properties of the end of a run.                                         *)
(***************************************************************************)
\* strptime rejects the timestamp loginTime builds of the three strings
BadStamp(mon, dy, tim) == strptimeRun(mon \o SP \o dy \o SP \o tim).null

\* C17: once the body of the response is being read the run is not aborted,
\* whatever the lines are: it ends with the summary, printed once and after
\* every flag line; a line whose timestamp cannot be parsed is counted like
\* any other and is flagged when its IP is banned
C17_LineProcessingNeverAborts ==
    /\ [](pc = "processLogs" => <>(pc = "done" /\ exitCode = 0))
    /\ [][pc = "processLogs" => pc' \in {"processLogs", "done"}]_vars
    /\ [](pc = "processLogs" => ~SummaryPrinted)
    /\ []((pc = "done" /\ argc = 2)
            => /\ out # <<>>
               /\ out[Len(out)] = <<"summary", lineCount, hackCount>>
               /\ \A i \in 1..(Len(out) - 1) : out[i][1] # "summary")
    /\ [][(nread' = nread + 1 /\ BadStamp(month', day', time'))
            => /\ lineCount' = lineCount + 1
               /\ pc' = "processLogs"
               /\ ip' \in bannedIPs
                     => /\ out' = Append(out, <<"banned", line'>>)
                        /\ hackCount' = hackCount + 1]_vars

\* a run that ended with the summary after an empty line, a log line with a
\* bad timestamp and a banned IP, which was flagged, and a well-formed line
C17_Witness ==
    /\ pc = "done" /\ exitCode = 0
    /\ seen = <<<<>>, LogLine(BadTime, Bob, BannedIP), LogLine(T10, Bob, GoodIP)>>
    /\ out = <<<<"banned", seen[2]>>, <<"summary", 3, 1>>>>

(***************************************************************************)
(* Properties of frequencyHacking.                                         *)
(***************************************************************************)
\* the last four entries of h, all of h when it has fewer
Trailing(h) == SubSeq(h, IF Len(h) > 4 THEN Len(h) - 3 ELSE 1, Len(h))

\* C18: the frequency decision depends only on the four most recent
\* timestamps of the user: two histories with the same last four entries get
\* the same decision, which is to flag exactly when these are four entries
\* within 20 seconds, whatever came before them
C18_TrailingWindowOnly ==
    probe.asked
        => /\ Trailing(probe.h1) = Trailing(probe.h2) => probe.d1 = probe.d2
           /\ probe.d1 = (/\ Len(Trailing(probe.h1)) = 4
                          /\ Trailing(probe.h1)[4] - Trailing(probe.h1)[1] <= 20)

\* a history with an earlier burst (0, 0, 20, 20) and four last entries that
\* span 41 seconds, and the history of these four entries alone: neither is
\* flagged
C18_Witness ==
    /\ probe.asked
    /\ probe.h1 = <<0, 0, 20, 20, 41>>
    /\ probe.h2 = <<0, 20, 20, 41>>
    /\ ~probe.d1 /\ ~probe.d2

\* C19: on every way the run ends after the connection was opened (the normal
\* end, the end of the stream while the headers are skipped, a fatal error
\* such as a lookup file that cannot be opened) the connection has been
\* closed when the process ends
C19_ConnectionClosedAtExit ==
    (pc \in {"done", "aborted"} /\ sock.status \notin {"unconnected", "failed"})
        => sock.status = "closed"

(***************************************************************************)
(* Properties of the size of the state.                                    *)
(***************************************************************************)
RECURSIVE Retained(_, _)
\* the number of timestamps the map lt holds for the users in S
Retained(lt, S) ==
    IF S = {} THEN 0
    ELSE LET u == CHOOSE x \in S : TRUE
         IN  Len(lt[u]) + Retained(lt, S \ {u})

\* the number of banned-IP messages in the output o
BannedCount(o) == Cardinality({i \in 1..Len(o) : o[i][1] = "banned"})

\* C20 as stated: the number of timestamps kept for one user stays bounded by
\* a constant, the four entries the frequency rule reads
C20_BoundedHistory ==
    \A u \in DOMAIN loginTimes : Len(loginTimes[u]) <= 4

\* C20 as the code has it: every processed line whose IP is not banned leaves
\* one timestamp in the map for good, so the timestamps kept are as many as
\* these lines and grow with the number of lines
C20_HistoryGrowsWithLines ==
    Retained(loginTimes, DOMAIN loginTimes) = lineCount - BannedCount(out)

\* five lines of bob from an IP that is not banned: five timestamps are kept
\* for him
C20_Witness ==
    /\ lineCount = 5
    /\ Len(History(loginTimes, Bob)) = 5
    /\ BannedCount(out) = 0

=============================================================================
